---- MODULE Spec2Model ----
(***************************************************************************)
(* Model of the agent-docs ingestion scripts and of the two Postgres       *)
(* tables they write (documents, document_sources).                        *)
(*                                                                         *)
(* The scripts are batch jobs started by hand; one invocation runs at a    *)
(* time.  An invocation is a walk of its main(): `script` names the        *)
(* script, `pc` the place in main(), the other run variables are main()'s  *)
(* locals.  The external world (the documentation site, the repository on  *)
(* disk, the embedding API, the database server) answers each call with a  *)
(* value chosen from a small set, or with a failure.                       *)
(*                                                                         *)
(* Strings that the code transforms are sequences of one-character         *)
(* strings, so that lower(), upper(), replace() and concatenation are      *)
(* computed.  A text whose only observed attributes are its length and     *)
(* its word count is the record [rev, chars, words]; len(text) is .chars   *)
(* and len(text.split()) is .words.                                        *)
(***************************************************************************)
EXTENDS Integers, Sequences, FiniteSets, TLC

VARIABLES
    documents,          \* the documents table: a sequence of rows (heap order)
    document_sources,   \* the document_sources table: a sequence of rows
    clock,              \* utcnow() / CURRENT_TIMESTAMP, in invocations started
    script,             \* the script being run ("none" before the first run)
    pc,                 \* place in main()
    database_url,       \* os.getenv('DATABASE_URL') is set and non-empty
    openai_api_key,     \* os.getenv('OPENAI_API_KEY') is set and non-empty
    world,              \* what the site / the repository holds during this run
    to_extract,         \* endpoints_to_extract / md_files / doc_files
    i,                  \* number of iterations done by the current loop
    endpoints,          \* main()'s endpoints / documents list
    embeddings,         \* main()'s embeddings list
    conn,               \* the asyncpg connection is open
    exit_status,        \* process exit status, once pc = "exited" (0 before)
    events,             \* external calls of the current run, in order
    original_accessible,    \* validate_migration.main: test_original_database()
    new_database_valid      \* validate_migration.main: validate_new_database()

dbVars  == <<documents, document_sources>>
envVars == <<database_url, openai_api_key>>
valVars == <<original_accessible, new_database_valid>>
vars    == <<documents, document_sources, clock, script, pc, database_url,
             openai_api_key, world, to_extract, i, endpoints, embeddings, conn,
             exit_status, events, original_accessible, new_database_valid>>

----------------------------------------------------------------------------
(* Bounds of the model. *)

\* Invocations of the scripts in one behaviour.
MaxRuns == 2

----------------------------------------------------------------------------
(* Strings. *)

UpperCase == <<"A","B","C","D","E","F","G","H","I","J","K","L","M",
               "N","O","P","Q","R","S","T","U","V","W","X","Y","Z">>
LowerCase == <<"a","b","c","d","e","f","g","h","i","j","k","l","m",
               "n","o","p","q","r","s","t","u","v","w","x","y","z">>

lowerChar(c) ==
    IF \E n \in DOMAIN UpperCase : UpperCase[n] = c
    THEN LowerCase[CHOOSE n \in DOMAIN UpperCase : UpperCase[n] = c]
    ELSE c

upperChar(c) ==
    IF \E n \in DOMAIN LowerCase : LowerCase[n] = c
    THEN UpperCase[CHOOSE n \in DOMAIN LowerCase : LowerCase[n] = c]
    ELSE c

\* str.lower(), str.upper()
lower(s) == [n \in DOMAIN s |-> lowerChar(s[n])]
upper(s) == [n \in DOMAIN s |-> upperChar(s[n])]

\* str.replace(old, new) for one-character old and new
replace(s, old, new) == [n \in DOMAIN s |-> IF s[n] = old THEN new ELSE s[n]]

----------------------------------------------------------------------------
(* Texts.  TextSizes[rev] gives len(text) and len(text.split()) of the    *)
(* revisions of a document's text that the world can serve: one of just    *)
(* MAX_CHARS characters and one a few characters longer.                   *)

MAX_CHARS == 30000

Revisions == {1, 2}
TextSizes == <<[chars |-> 30000, words |-> 4000], [chars |-> 30004, words |-> 4001]>>

\* The text of `what` at revision rev.
Text(what, rev) ==
    [about |-> what, rev |-> rev,
     chars |-> TextSizes[rev].chars, words |-> TextSizes[rev].words]

TRUNCATED == <<".", ".", ".", " ", "[", "T", "R", "U", "N", "C", "A", "T", "E", "D", "]">>

\* text = text[:MAX_CHARS] + "... [TRUNCATED]" when len(text) > MAX_CHARS:
\* the text handed to the embedding API.
Truncate(text) ==
    IF text.chars > MAX_CHARS
    THEN [text EXCEPT !.chars = MAX_CHARS + Len(TRUNCATED)]
    ELSE text

\* The embedding API, when it answers: response.data[0].embedding, the
\* vector of the text it was sent.
Embedding(text) == <<"vector", text.about, text.rev, text.chars>>

\* SQL NULL; the value v of a nullable integer column is <<v>>.
NULL == <<>>

----------------------------------------------------------------------------
(* The database. *)

Key(row) == <<row.doc_type, row.source_name, row.doc_path>>

\* A plausible slip: a plain INSERT, without the ON CONFLICT clause.
UpsertInsertOnly(table, row) == Append(table, row)

\* A plausible slip: DO UPDATE SET token_count = documents.token_count +
\* EXCLUDED.token_count, a running total instead of the new value.
UpsertAccumulating(table, row) ==
    IF \E n \in DOMAIN table : Key(table[n]) = Key(row)
    THEN [n \in DOMAIN table |->
            IF Key(table[n]) = Key(row)
            THEN [table[n] EXCEPT !.content = row.content,
                                  !.metadata = row.metadata,
                                  !.embedding = row.embedding,
                                  !.token_count = @ + row.token_count,
                                  !.updated_at = row.updated_at]
            ELSE table[n]]
    ELSE Append(table, row)

\* INSERT INTO documents (...) VALUES (...)
\* ON CONFLICT (doc_type, source_name, doc_path) DO UPDATE SET
\*   content, metadata, embedding, token_count, updated_at = CURRENT_TIMESTAMP
Upsert(table, row) ==
    IF \E n \in DOMAIN table : Key(table[n]) = Key(row)
    THEN [n \in DOMAIN table |->
            IF Key(table[n]) = Key(row)
            THEN [table[n] EXCEPT !.content = row.content,
                                  !.metadata = row.metadata,
                                  !.embedding = row.embedding,
                                  !.token_count = row.token_count,
                                  !.updated_at = row.updated_at]
            ELSE table[n]]
    ELSE Append(table, row)

\* The row an INSERT at time `now` proposes (created_at and updated_at
\* default to CURRENT_TIMESTAMP).
DocumentRow(doc_type, source_name, doc_path, content, metadata, embedding, token_count, now) ==
    [doc_type |-> doc_type, source_name |-> source_name, doc_path |-> doc_path,
     content |-> content, metadata |-> metadata, embedding |-> embedding,
     token_count |-> token_count, created_at |-> now, updated_at |-> now]

SourceKey(row) == <<row.doc_type, row.source_name>>

\* INSERT INTO document_sources (...) VALUES ('birdeye', 'birdeye-api', 'latest', $1, true)
\* ON CONFLICT (doc_type, source_name) DO UPDATE SET config = $1, updated_at = ...
UpsertSource(table, row) ==
    IF \E n \in DOMAIN table : SourceKey(table[n]) = SourceKey(row)
    THEN [n \in DOMAIN table |->
            IF SourceKey(table[n]) = SourceKey(row)
            THEN [table[n] EXCEPT !.config = row.config, !.updated_at = row.updated_at]
            ELSE table[n]]
    ELSE Append(table, row)

RECURSIVE SumTokens(_)
SumTokens(rows) ==
    IF rows = <<>> THEN 0 ELSE Head(rows).token_count + SumTokens(Tail(rows))

RowsOf(table, doc_type, source_name) ==
    SelectSeq(table, LAMBDA r : r.doc_type = doc_type /\ r.source_name = source_name)

\* A plausible slip: the subqueries select by doc_type alone, and count the
\* rows of every source of that type.
UpdateStatsByType(sources, docs, doc_type, source_name) ==
    [n \in DOMAIN sources |->
        IF SourceKey(sources[n]) = <<doc_type, source_name>>
        THEN [sources[n] EXCEPT
                !.total_docs = <<Len(SelectSeq(docs, LAMBDA r : r.doc_type = doc_type))>>,
                !.total_tokens = <<SumTokens(SelectSeq(docs, LAMBDA r : r.doc_type = doc_type))>>]
        ELSE sources[n]]

\* UPDATE document_sources SET total_docs = (SELECT COUNT(*) ...),
\*   total_tokens = (SELECT COALESCE(SUM(token_count), 0) ...) WHERE doc_type = .. AND source_name = ..
UpdateStats(sources, docs, doc_type, source_name) ==
    [n \in DOMAIN sources |->
        IF SourceKey(sources[n]) = <<doc_type, source_name>>
        THEN [sources[n] EXCEPT
                !.total_docs = <<Len(RowsOf(docs, doc_type, source_name))>>,
                !.total_tokens = <<SumTokens(RowsOf(docs, doc_type, source_name))>>]
        ELSE sources[n]]

----------------------------------------------------------------------------
(* ingest_birdeye.py *)

Slugs == <<
    "get-defi-price", "get-defi-multi_price", "post-defi-multi_price",
    "get-defi-historical_price_unix", "get-defi-history_price", "get-defi-price_volume-single",
    "post-defi-price_volume-multi", "get-defi-txs-token", "get-defi-txs-pair",
    "get-defi-txs-token-seek_by_time", "get-defi-txs-pair-seek_by_time", "get-defi-v3-txs",
    "get-defi-v3-token-txs", "get-defi-v3-txs-recent", "get-defi-ohlcv",
    "get-defi-ohlcv-pair", "get-defi-ohlcv-base_quote", "get-defi-v3-ohlcv",
    "get-defi-v3-ohlcv-pair", "get-defi-token_overview", "get-defi-token_security",
    "get-defi-token_creation_info", "get-defi-tokenlist", "get-defi-token_trending",
    "get-defi-v3-token-list", "get-defi-v3-token-list-scroll", "get-defi-v3-token-meta-data-single",
    "get-defi-v3-token-meta-data-multiple", "get-defi-v3-token-market-data", "get-defi-v3-token-market-data-multiple",
    "get-defi-v3-token-trade-data-single", "get-defi-v3-token-trade-data-multiple", "get-trader-gainers-losers",
    "get-trader-txs-seek_by_time", "get-v1-wallet-balance_change", "get-v1-wallet-portfolio",
    "get-v1-wallet-token_balance", "get-v1-wallet-tx_list", "get-v1-wallet-net_worth",
    "get-defi-v3-search", "get-defi-networks", "get-v1-wallet-list_supported_chain" >>

Url(slug) == <<"https:", "", "docs.birdeye.so", "reference", slug>>

\* BirdEyeExtractor.discover_all_endpoints: the curated list.
discover_all_endpoints == [n \in DOMAIN Slugs |-> Url(Slugs[n])]

\* '/reference/' in url, for a URL given as its '/'-separated segments.
HasReference(url) == \E n \in 2..(Len(url) - 1) : url[n] = "reference"

\* url.split('/reference/')[-1]
SlugOf(url) ==
    LET last == CHOOSE n \in 2..(Len(url) - 1) :
                    /\ url[n] = "reference"
                    /\ \A m \in (n + 1)..(Len(url) - 1) : url[m] # "reference"
    IN  SubSeq(url, last + 1, Len(url))

test_mode == TRUE
TestLimit == 3

\* endpoints_to_extract = all_endpoints[:3] if test_mode else all_endpoints
endpoints_to_extract ==
    IF test_mode
    THEN SubSeq(discover_all_endpoints, 1, TestLimit)
    ELSE discover_all_endpoints

\* Optional[...]: None is the empty sequence, a value v is <<v>>.
None == <<>>

\* What docs.birdeye.so documents for a slug: the 'api' section of the
\* dereference response (the site writes methods in lower case).
SiteApi(slug) ==
    CASE slug = "get-defi-price" ->
            [method |-> <<"g", "e", "t">>, path |-> <<"/", "d", "e", "f", "i", "/", "p", "r", "i", "c", "e">>]
      [] slug = "get-defi-multi_price" ->
            [method |-> <<"g", "e", "t">>, path |-> <<"/", "d", "e", "f", "i", "/", "m", "u", "l", "t", "i", "_", "p", "r", "i", "c", "e">>]
      [] OTHER ->
            [method |-> <<"p", "o", "s", "t">>, path |-> <<"/", "d", "e", "f", "i", "/", "m", "u", "l", "t", "i", "_", "p", "r", "i", "c", "e">>]

\* What the site holds during one run: its pages at a revision of their
\* titles and texts, with their 'api' sections or (an older layout) without.
SiteSnapshots ==
    {[has_api |-> TRUE, rev |-> 1], [has_api |-> TRUE, rev |-> 2],
     [has_api |-> FALSE, rev |-> 1]}

\* Answers of the site to one GET of the dereference API: a failure
\* (raise_for_status raises, response.json() raises, no 'data' key), or the
\* page's data section.
SiteFailures == {"http_error", "not_json", "no_data"}
SiteResponses(site) ==
    [kind : SiteFailures, has_api : {site.has_api}, rev : {site.rev}]
        \cup {[kind |-> "ok", has_api |-> site.has_api, rev |-> site.rev]}

GET == <<"G", "E", "T">>
UNKNOWN_PATH == <<"/", "u", "n", "k", "n", "o", "w", "n">>

\* BirdEyeExtractor.extract_endpoint_data, given the site's answer.
extract_endpoint_data(url, resp) ==
    IF ~HasReference(url) THEN None
    ELSE IF resp.kind # "ok" THEN None
    ELSE
        LET slug   == SlugOf(url)
            title  == <<"title", slug, resp.rev>>
            method == IF resp.has_api THEN upper(SiteApi(slug[1]).method) ELSE GET
            path   == IF resp.has_api THEN SiteApi(slug[1]).path ELSE UNKNOWN_PATH
        IN  <<[url |-> url, title |-> title, method |-> method, path |-> path,
               content |-> Text(<<title, method, path>>, resp.rev),
               metadata |-> [source |-> url, title |-> title, method |-> method,
                             path |-> path, extracted_at |-> clock]]>>

\* A plausible slip: a doc_path that also carries something of the page's
\* content, so that it moves when the page is edited.
BirdeyeDocPathWithRevision(endpoint) ==
    lower(endpoint.method) \o replace(endpoint.path, "/", "_")
        \o <<"_", ToString(endpoint.content.rev)>>

\* doc_path = f"{endpoint.method.lower()}{endpoint.path.replace('/', '_')}"
BirdeyeDocPath(endpoint) == lower(endpoint.method) \o replace(endpoint.path, "/", "_")

\* delay = 15 if len(endpoints_to_extract) > 20 else 10
Delay(n) == IF n > 20 THEN 15 ELSE 10

----------------------------------------------------------------------------
(* The state machine. *)

Scripts == {"ingest_birdeye", "ingest_birdeye_simple", "ingest_solana",
            "ingest_solana_comprehensive"}

\* An external call of the run: a GET of a documentation URL ("fetch", the
\* URL, 1 if it gave a document and 0 if not), a file read ("read", the
\* path, likewise, and -1 if open() or read() raised), a time.sleep ("sleep", -, seconds), an embedding request
\* ("embed", the document's place in the list, the characters sent), an
\* asyncio.sleep, a connect, an upsert ("store", the document's place), or
\* another SQL statement.
Event(op, arg, n) == [op |-> op, arg |-> arg, n |-> n]

Init ==
    /\ documents = <<>>
    /\ document_sources = <<>>
    /\ clock = 0
    /\ script = "none"
    /\ pc = "idle"
    /\ database_url = FALSE
    /\ openai_api_key = FALSE
    /\ world = [rev |-> 0]
    /\ to_extract = <<>>
    /\ i = 0
    /\ endpoints = <<>>
    /\ embeddings = <<>>
    /\ conn = FALSE
    /\ exit_status = 0
    /\ events = <<>>
    /\ original_accessible = FALSE
    /\ new_database_valid = FALSE

\* A plausible slip: only DATABASE_URL is checked before the work starts.
LaunchWithoutKeyCheck(s, first, status, list, snapshot) ==
    /\ pc \in {"idle", "exited"}
    /\ clock < MaxRuns
    /\ clock' = clock + 1
    /\ script' = s
    /\ \E db \in BOOLEAN, key \in BOOLEAN :
        /\ database_url' = db
        /\ openai_api_key' = key
        /\ IF db
           THEN pc' = first /\ exit_status' = status /\ to_extract' = list
           ELSE pc' = "exited" /\ exit_status' = 1 /\ to_extract' = <<>>
    /\ world' = snapshot
    /\ i' = 0
    /\ endpoints' = <<>>
    /\ embeddings' = <<>>
    /\ conn' = FALSE
    /\ events' = <<>>
    /\ original_accessible' = FALSE
    /\ new_database_valid' = FALSE
    /\ UNCHANGED dbVars

\* The operator starts a script: main() up to its first external call.
\*   if not database_url: sys.exit(1)
\*   if not openai_api_key: sys.exit(1)
Launch(s, first, status, list, snapshot) ==
    /\ pc \in {"idle", "exited"}
    /\ clock < MaxRuns
    /\ clock' = clock + 1
    /\ script' = s
    /\ \E db \in BOOLEAN, key \in BOOLEAN :
        /\ database_url' = db
        /\ openai_api_key' = key
        /\ IF db /\ key
           THEN pc' = first /\ exit_status' = status /\ to_extract' = list
           ELSE pc' = "exited" /\ exit_status' = 1 /\ to_extract' = <<>>
    /\ world' = snapshot
    /\ i' = 0
    /\ endpoints' = <<>>
    /\ embeddings' = <<>>
    /\ conn' = FALSE
    /\ events' = <<>>
    /\ original_accessible' = FALSE
    /\ new_database_valid' = FALSE
    /\ UNCHANGED dbVars

\* The run ends: sys.exit(status), or main() returns (status 0), or an
\* exception leaves asyncio.run (status 1).
Exit(status) ==
    /\ pc' = "exited"
    /\ exit_status' = status
    /\ conn' = FALSE

\* ingest_birdeye.main, lines 344-379
BirdeyeStart ==
    /\ \E site \in SiteSnapshots :
            Launch("ingest_birdeye", "extract", 0, endpoints_to_extract, site)

\* A plausible slip: the loop of the per-document design, which embeds and
\* stores each endpoint as soon as it is extracted.
BirdeyeExtractInline ==
    /\ script = "ingest_birdeye"
    /\ pc = "extract"
    /\ i < Len(to_extract)
    /\ \E resp \in SiteResponses(world) :
        LET url      == to_extract[i + 1]
            endpoint == extract_endpoint_data(url, resp)
            got      == IF endpoint # None THEN Append(endpoints, endpoint[1]) ELSE endpoints
            text     == Truncate(endpoint[1].content)
            place    == Len(endpoints) + 1
            inline   == IF endpoint # None
                        THEN <<Event("embed", place, text.chars), Event("store", place, place)>>
                        ELSE <<>>
            sleep    == IF i < Len(to_extract) - 1
                        THEN <<Event("sleep", url, Delay(Len(to_extract)))>>
                        ELSE <<>>
        IN  /\ endpoints' = got
            /\ embeddings' = IF endpoint # None
                             THEN Append(embeddings, Embedding(text))
                             ELSE embeddings
            /\ documents' = IF endpoint # None
                            THEN Upsert(documents, DocumentRow("birdeye", "birdeye-api",
                                    BirdeyeDocPath(endpoint[1]), endpoint[1].content,
                                    endpoint[1].metadata, Embedding(text),
                                    endpoint[1].content.words, clock))
                            ELSE documents
            /\ events' = events \o <<Event("fetch", url, Len(endpoint))>> \o inline \o sleep
            /\ IF i + 1 < Len(to_extract)
               THEN /\ i' = i + 1
                    /\ UNCHANGED <<pc, exit_status, conn>>
               ELSE /\ i' = 0
                    /\ IF got = <<>> THEN Exit(1) ELSE Exit(0)
    /\ UNCHANGED <<document_sources, clock, script, envVars, valVars, world, to_extract>>

\* A plausible slip: the pause is taken only after an endpoint that was
\* extracted, and a failed fetch is followed at once by the next one.
BirdeyeExtractSleepOnSuccess ==
    /\ script = "ingest_birdeye"
    /\ pc = "extract"
    /\ i < Len(to_extract)
    /\ \E resp \in SiteResponses(world) :
        LET url      == to_extract[i + 1]
            endpoint == extract_endpoint_data(url, resp)
            got      == IF endpoint # None THEN Append(endpoints, endpoint[1]) ELSE endpoints
            sleep    == IF endpoint # None /\ i < Len(to_extract) - 1
                        THEN <<Event("sleep", url, Delay(Len(to_extract)))>>
                        ELSE <<>>
        IN  /\ endpoints' = got
            /\ events' = events \o <<Event("fetch", url, Len(endpoint))>> \o sleep
            /\ IF i + 1 < Len(to_extract)
               THEN /\ i' = i + 1
                    /\ UNCHANGED <<pc, exit_status, conn>>
               ELSE /\ i' = 0
                    /\ IF got = <<>>
                       THEN Exit(1)
                       ELSE pc' = "embed" /\ UNCHANGED <<exit_status, conn>>
    /\ UNCHANGED <<dbVars, clock, script, envVars, valVars, world, to_extract, embeddings>>

\* A plausible slip: extract_endpoint_data lets the failure out, and the run
\* ends at the first URL that cannot be extracted.
BirdeyeExtractAbortOnFailure ==
    /\ script = "ingest_birdeye"
    /\ pc = "extract"
    /\ i < Len(to_extract)
    /\ \E resp \in SiteResponses(world) :
        LET url      == to_extract[i + 1]
            endpoint == extract_endpoint_data(url, resp)
            got      == IF endpoint # None THEN Append(endpoints, endpoint[1]) ELSE endpoints
            sleep    == IF endpoint # None /\ i < Len(to_extract) - 1
                        THEN <<Event("sleep", url, Delay(Len(to_extract)))>>
                        ELSE <<>>
        IN  /\ endpoints' = got
            /\ events' = events \o <<Event("fetch", url, Len(endpoint))>> \o sleep
            /\ IF endpoint = None
               THEN /\ Exit(1)
                    /\ UNCHANGED i
               ELSE IF i + 1 < Len(to_extract)
               THEN /\ i' = i + 1
                    /\ UNCHANGED <<pc, exit_status, conn>>
               ELSE /\ i' = 0
                    /\ pc' = "embed" /\ UNCHANGED <<exit_status, conn>>
    /\ UNCHANGED <<dbVars, clock, script, envVars, valVars, world, to_extract, embeddings>>

\* ingest_birdeye.main, one iteration of `for i, url in enumerate(endpoints_to_extract)`
\* and, after the last one, `if not endpoints: sys.exit(1)`.
BirdeyeExtract ==
    /\ script = "ingest_birdeye"
    /\ pc = "extract"
    /\ i < Len(to_extract)
    /\ \E resp \in SiteResponses(world) :
        LET url      == to_extract[i + 1]
            endpoint == extract_endpoint_data(url, resp)
            got      == IF endpoint # None THEN Append(endpoints, endpoint[1]) ELSE endpoints
            fetch    == IF HasReference(url)
                        THEN <<Event("fetch", url, Len(endpoint))>>
                        ELSE <<>>
            sleep    == IF i < Len(to_extract) - 1
                        THEN <<Event("sleep", url, Delay(Len(to_extract)))>>
                        ELSE <<>>
        IN  /\ endpoints' = got
            /\ events' = events \o fetch \o sleep
            /\ IF i + 1 < Len(to_extract)
               THEN /\ i' = i + 1
                    /\ UNCHANGED <<pc, exit_status, conn>>
               ELSE /\ i' = 0
                    /\ IF got = <<>>
                       THEN Exit(1)
                       ELSE pc' = "embed" /\ UNCHANGED <<exit_status, conn>>
    /\ UNCHANGED <<dbVars, clock, script, envVars, valVars, world, to_extract, embeddings>>

\* A plausible slip: a failed embedding request is sent again.
GenerateEmbeddingsRetry(s, pause) ==
    /\ script = s
    /\ pc = "embed"
    /\ i < Len(endpoints)
    /\ LET text == Truncate(endpoints[i + 1].content)
           call == <<Event("embed", i + 1, text.chars)>>
       IN  \/ /\ embeddings' = Append(embeddings, Embedding(text))
              /\ events' = events \o call \o
                           (IF pause THEN <<Event("asyncio.sleep", i + 1, 1)>> ELSE <<>>)
              /\ IF i + 1 < Len(endpoints)
                 THEN i' = i + 1 /\ UNCHANGED pc
                 ELSE i' = 0 /\ pc' = "connect"
           \/ /\ events' = events \o call
              /\ UNCHANGED <<embeddings, i, pc>>
    /\ UNCHANGED <<dbVars, clock, script, envVars, valVars, world, to_extract, endpoints,
                   exit_status, conn>>

\* A plausible slip: a failed embedding request is swallowed and the
\* document is stored without a vector.
GenerateEmbeddingsSwallow(s, pause) ==
    /\ script = s
    /\ pc = "embed"
    /\ i < Len(endpoints)
    /\ LET text == Truncate(endpoints[i + 1].content)
           call == <<Event("embed", i + 1, text.chars)>>
       IN  /\ \E vector \in {Embedding(text), NULL} :
                embeddings' = Append(embeddings, vector)
           /\ events' = events \o call \o
                        (IF pause THEN <<Event("asyncio.sleep", i + 1, 1)>> ELSE <<>>)
           /\ IF i + 1 < Len(endpoints)
              THEN i' = i + 1 /\ UNCHANGED pc
              ELSE i' = 0 /\ pc' = "connect"
    /\ UNCHANGED <<dbVars, clock, script, envVars, valVars, world, to_extract, endpoints,
                   exit_status, conn>>

\* EmbeddingGenerator.generate_embedding called by one iteration of main()'s
\* `for i, endpoint in enumerate(endpoints)`: the text is truncated, the
\* API is called once, and it answers with a vector or the call raises.
\* `pause` is the asyncio.sleep(1) that follows in ingest_birdeye.
GenerateEmbeddings(s, pause) ==
    /\ script = s
    /\ pc = "embed"
    /\ i < Len(endpoints)
    /\ LET text == Truncate(endpoints[i + 1].content)
           call == <<Event("embed", i + 1, text.chars)>>
       IN  \/ /\ embeddings' = Append(embeddings, Embedding(text))
              /\ events' = events \o call \o
                           (IF pause THEN <<Event("asyncio.sleep", i + 1, 1)>> ELSE <<>>)
              /\ IF i + 1 < Len(endpoints)
                 THEN i' = i + 1 /\ UNCHANGED pc
                 ELSE i' = 0 /\ pc' = "connect"
              /\ UNCHANGED <<exit_status, conn>>
           \/ /\ events' = events \o call
              /\ Exit(1)
              /\ UNCHANGED <<embeddings, i>>
    /\ UNCHANGED <<dbVars, clock, script, envVars, valVars, world, to_extract, endpoints>>

\* ingest_birdeye.main, lines 401-410
BirdeyeEmbed == GenerateEmbeddings("ingest_birdeye", TRUE)

\* conn = await asyncpg.connect(self.database_url)
Connect(s, next) ==
    /\ script = s
    /\ pc = "connect"
    /\ events' = Append(events, Event("connect", 0, 0))
    /\ \/ conn' = TRUE /\ pc' = next /\ UNCHANGED exit_status
       \/ Exit(1)
    /\ UNCHANGED <<dbVars, clock, script, envVars, valVars, world, to_extract, i, endpoints, embeddings>>

\* DatabaseManager.store_endpoints, line 275
BirdeyeConnect == Connect("ingest_birdeye", "ensure")

\* A statement sent on the open connection raises; `finally: await conn.close()`.
StatementFails ==
    /\ conn
    /\ pc \in {"ensure", "store", "stats", "close"}
    /\ Exit(1)
    /\ events' = Append(events, Event("sql", pc, 0))
    /\ UNCHANGED <<dbVars, clock, script, envVars, valVars, world, to_extract, i, endpoints, embeddings>>

\* DatabaseManager.ensure_document_source
BirdeyeEnsureSource ==
    /\ script = "ingest_birdeye"
    /\ pc = "ensure"
    /\ document_sources' = UpsertSource(document_sources,
            [doc_type |-> "birdeye", source_name |-> "birdeye-api", version |-> "latest",
             config |-> [last_ingestion |-> clock], enabled |-> TRUE,
             total_docs |-> NULL, total_tokens |-> NULL, updated_at |-> clock])
    /\ events' = Append(events, Event("sql", "ensure", 0))
    /\ pc' = IF Len(endpoints) > 0 /\ Len(embeddings) > 0 THEN "store" ELSE "stats"
    /\ UNCHANGED <<documents, clock, script, envVars, valVars, world, to_extract, i, endpoints, embeddings,
                   conn, exit_status>>

\* The row DatabaseManager.store_document writes for an endpoint:
\* token_count is len(endpoint.content.split()).
BirdeyeRow(endpoint, embedding, now) ==
    DocumentRow("birdeye", "birdeye-api", BirdeyeDocPath(endpoint), endpoint.content,
                endpoint.metadata, embedding, endpoint.content.words, now)

\* A plausible slip: the store loop starts over when it reaches the end of
\* the list, and writes the same rows again and again.
StoreNextRestart(s, row, after) ==
    /\ script = s
    /\ pc = "store"
    /\ documents' = Upsert(documents, row)
    /\ events' = IF \E e \in DOMAIN events : events[e].op = "store" /\ events[e].n = i + 1
                 THEN events
                 ELSE Append(events, Event("store", i + 1, i + 1))
    /\ i' = IF i + 1 < Len(endpoints) /\ i + 1 < Len(embeddings) THEN i + 1 ELSE 0
    /\ UNCHANGED <<pc, exit_status, conn>>

\* One iteration of `for ... in zip(endpoints, embeddings)` of a store step.
StoreNext(s, row, after) ==
    /\ script = s
    /\ pc = "store"
    /\ documents' = Upsert(documents, row)
    /\ events' = Append(events, Event("store", i + 1, i + 1))
    /\ IF i + 1 < Len(endpoints) /\ i + 1 < Len(embeddings)
       THEN i' = i + 1 /\ UNCHANGED <<pc, exit_status, conn>>
       ELSE i' = 0 /\ after

\* DatabaseManager.store_endpoints, lines 282-283, and store_document
BirdeyeStoreDocument ==
    /\ script = "ingest_birdeye"
    /\ pc = "store"
    /\ StoreNext("ingest_birdeye", BirdeyeRow(endpoints[i + 1], embeddings[i + 1], clock),
                 pc' = "stats" /\ UNCHANGED <<exit_status, conn>>)
    /\ UNCHANGED <<document_sources, clock, script, envVars, valVars, world, to_extract, endpoints, embeddings>>

\* DatabaseManager.update_source_stats, then conn.close() and main() returns
BirdeyeUpdateStats ==
    /\ script = "ingest_birdeye"
    /\ pc = "stats"
    /\ document_sources' = UpdateStats(document_sources, documents, "birdeye", "birdeye-api")
    /\ events' = Append(events, Event("sql", "stats", 0))
    /\ Exit(0)
    /\ UNCHANGED <<documents, clock, script, envVars, valVars, world, to_extract, i, endpoints, embeddings>>

----------------------------------------------------------------------------
(* ingest_birdeye_simple.py *)

\* What the site's OpenAPI schema holds during one run: its `paths`, as the
\* (path, key) pairs of the path items in dict order, at a revision of the
\* operations' texts.  A key is an HTTP method as the schema spells it, or
\* another key of a path item ("parameters").
DEFI_PRICE == <<"/", "d", "e", "f", "i", "/", "p", "r", "i", "c", "e">>
DEFI_MULTI_PRICE == <<"/", "d", "e", "f", "i", "/", "m", "u", "l", "t", "i", "_", "p", "r", "i", "c", "e">>
SpecSnapshots ==
    {[rev |-> 1, paths |-> <<>>],
     [rev |-> 1, paths |-> <<[path |-> DEFI_PRICE, key |-> <<"g", "e", "t">>],
                             [path |-> DEFI_PRICE, key |-> <<"p", "a", "r", "a", "m", "e", "t", "e", "r", "s">>]>>],
     [rev |-> 2, paths |-> <<[path |-> DEFI_PRICE, key |-> <<"g", "e", "t">>],
                             [path |-> DEFI_MULTI_PRICE, key |-> <<"P", "o", "s", "t">>]>>]}

HttpMethods == {<<"G", "E", "T">>, <<"P", "O", "S", "T">>, <<"P", "U", "T">>, <<"D", "E", "L", "E", "T", "E">>, <<"P", "A", "T", "C", "H">>}

\* A plausible slip: the key is compared as the schema spells it, without
\* upper().
RECURSIVE extract_endpoints_CaseSensitive(_, _)
extract_endpoints_CaseSensitive(paths, rev) ==
    IF paths = <<>> THEN <<>>
    ELSE
        LET item   == Head(paths)
            method == item.key
            title  == <<"title", item.path, method, rev>>
            rest   == extract_endpoints_CaseSensitive(Tail(paths), rev)
        IN  IF method \in HttpMethods
            THEN <<[url |-> <<>>, title |-> title, method |-> method, path |-> item.path,
                    content |-> Text(<<title, method, item.path>>, rev),
                    metadata |-> [source |-> <<"birdeye_openapi">>, title |-> title,
                                  method |-> method, path |-> item.path,
                                  extracted_at |-> clock]]>> \o rest
            ELSE rest

\* BirdEyeProcessor.extract_endpoints_from_spec: one endpoint for every
\* (path, method) whose method.upper() is an HTTP method.
RECURSIVE extract_endpoints_from_spec(_, _)
extract_endpoints_from_spec(paths, rev) ==
    IF paths = <<>> THEN <<>>
    ELSE
        LET item   == Head(paths)
            method == upper(item.key)
            title  == <<"title", item.path, method, rev>>
            rest   == extract_endpoints_from_spec(Tail(paths), rev)
        IN  IF method \in HttpMethods
            THEN <<[url |-> <<>>, title |-> title, method |-> method, path |-> item.path,
                    content |-> Text(<<title, method, item.path>>, rev),
                    metadata |-> [source |-> <<"birdeye_openapi">>, title |-> title,
                                  method |-> method, path |-> item.path,
                                  extracted_at |-> clock]]>> \o rest
            ELSE rest

\* doc_path = f"{endpoint.method} {endpoint.path}"
SimpleDocPath(endpoint) == endpoint.method \o <<" ">> \o endpoint.path

\* The row store_endpoints writes for an endpoint: token_count is
\* len(endpoint.content) // 4.
SimpleRow(endpoint, embedding, now) ==
    DocumentRow("birdeye", "BirdEye API", SimpleDocPath(endpoint), endpoint.content,
                endpoint.metadata, embedding, endpoint.content.chars \div 4, now)

\* ingest_birdeye_simple.main, lines 221-240
SimpleStart ==
    /\ \E spec \in SpecSnapshots :
            Launch("ingest_birdeye_simple", "download", 0, <<>>, spec)

\* BirdEyeProcessor.download_openapi_spec (one GET, which may raise) and
\* extract_endpoints_from_spec
SimpleDownload ==
    /\ script = "ingest_birdeye_simple"
    /\ pc = "download"
    /\ \/ /\ events' = Append(events, Event("fetch", Url("get-defi-price"), 1))
          /\ endpoints' = extract_endpoints_from_spec(world.paths, world.rev)
          /\ pc' = IF endpoints' = <<>> THEN "connect" ELSE "embed"
          /\ UNCHANGED <<exit_status, conn>>
       \/ /\ events' = Append(events, Event("fetch", Url("get-defi-price"), 0))
          /\ Exit(1)
          /\ UNCHANGED endpoints
    /\ UNCHANGED <<dbVars, clock, script, envVars, valVars, world, to_extract, i, embeddings>>

\* ingest_birdeye_simple.main, lines 250-256
SimpleEmbed == GenerateEmbeddings("ingest_birdeye_simple", FALSE)

\* store_endpoints: asyncpg.connect and register_vector
SimpleConnect ==
    Connect("ingest_birdeye_simple", IF endpoints = <<>> THEN "close" ELSE "store")

\* store_endpoints, one iteration of `for ... in enumerate(zip(endpoints, embeddings))`;
\* after the last one the connection is closed and main() returns.
SimpleStore ==
    /\ script = "ingest_birdeye_simple"
    /\ pc = "store"
    /\ StoreNext("ingest_birdeye_simple", SimpleRow(endpoints[i + 1], embeddings[i + 1], clock),
                 Exit(0))
    /\ UNCHANGED <<document_sources, clock, script, envVars, valVars, world, to_extract, endpoints,
                   embeddings>>

\* A store step whose zip() is empty: `finally: await conn.close()`, main() returns.
Close ==
    /\ pc = "close"
    /\ Exit(0)
    /\ events' = Append(events, Event("close", 0, 0))
    /\ UNCHANGED <<dbVars, clock, script, envVars, valVars, world, to_extract, i, endpoints, embeddings>>

----------------------------------------------------------------------------
(* ingest_solana.py and ingest_solana_comprehensive.py *)

\* s[a:] with a counted from 1, and `pat in s`, s.endswith(pat)
Contains(s, pat) ==
    \E k \in 1..(Len(s) - Len(pat) + 1) : SubSeq(s, k, k + Len(pat) - 1) = pat
EndsWith(s, pat) ==
    Len(s) >= Len(pat) /\ SubSeq(s, Len(s) - Len(pat) + 1, Len(s)) = pat

SOLANA_AGAVE == <<"s", "o", "l", "a", "n", "a", "-", "a", "g", "a", "v", "e">>
SOLANA_AGAVE_FULL == <<"s", "o", "l", "a", "n", "a", "-", "a", "g", "a", "v", "e", "-", "f", "u", "l", "l">>

README_MD == <<"R", "E", "A", "D", "M", "E", ".", "m", "d">>
USAGE_MD == <<"d", "o", "c", "s", "/", "s", "r", "c", "/", "c", "l", "i", "/", "u", "s", "a", "g", "e", ".", "m", "d">>
TARGET_MD == <<"t", "a", "r", "g", "e", "t", "/", "d", "o", "c", "/", "i", "n", "d", "e", "x", ".", "m", "d">>
LIB_RS == <<"s", "r", "c", "/", "l", "i", "b", ".", "r", "s">>
FORK_BOB == <<"d", "o", "c", "s", "/", "a", "r", "t", "/", "f", "o", "r", "k", ".", "b", "o", "b">>
PROOF_PDF == <<"z", "k", "-", "d", "o", "c", "s", "/", "p", "r", "o", "o", "f", ".", "p", "d", "f">>

\* What the cloned repository holds during one run: its files in directory
\* order, each with the path below the repository root and what reading it
\* as text gives: nothing but white space ("blank") or a revision of its text.
RepoSnapshots ==
    {[exists |-> TRUE, files |-> <<>>],
     [exists |-> TRUE, files |->
        <<[path |-> README_MD, raw |-> <<1>>], [path |-> TARGET_MD, raw |-> <<1>>],
          [path |-> USAGE_MD, raw |-> <<>>]>>],
     [exists |-> TRUE, files |->
        <<[path |-> README_MD, raw |-> <<2>>], [path |-> USAGE_MD, raw |-> <<1>>]>>],
     [exists |-> TRUE, files |->
        <<[path |-> FORK_BOB, raw |-> <<1>>], [path |-> LIB_RS, raw |-> <<1>>],
          [path |-> PROOF_PDF, raw |-> <<>>]>>]}

\* What main() finds when the repository directory does not exist.
NoRepository == [exists |-> FALSE, files |-> <<>>]

skip_patterns ==
    {<<"n", "o", "d", "e", "_", "m", "o", "d", "u", "l", "e", "s", "/">>, <<".", "g", "i", "t", "/">>,
     <<"t", "a", "r", "g", "e", "t", "/">>, <<"b", "u", "i", "l", "d", "/">>, <<"d", "i", "s", "t", "/">>,
     <<"C", "O", "D", "E", "O", "W", "N", "E", "R", "S">>, <<"N", "O", "T", "I", "C", "E">>}

\* str(repo_path / relative), and str(Path(file_path).relative_to(repo_path))
Join(repo_path, relative) == repo_path \o <<"/">> \o relative
RelativeTo(file_path, repo_path) == SubSeq(file_path, Len(repo_path) + 2, Len(file_path))

\* for f in repo_path.rglob("*" + ext): the files of one extension that no
\* skip pattern occurs in, as str(f).
RECURSIVE rglob(_, _, _)
rglob(repo_path, files, ext) ==
    IF files = <<>> THEN <<>>
    ELSE
        LET relative_path == Head(files).path
            rest == rglob(repo_path, Tail(files), ext)
        IN  IF /\ EndsWith(relative_path, ext)
               /\ ~\E pattern \in skip_patterns : Contains(relative_path, pattern)
            THEN <<Join(repo_path, relative_path)>> \o rest
            ELSE rest

MD == <<".", "m", "d">>
supported_extensions == <<<<".", "m", "d">>, <<".", "m", "d", "x">>, <<".", "b", "o", "b">>, <<".", "m", "s", "c">>, <<".", "p", "d", "f">>>>

\* SolanaDocProcessor.discover_markdown_files
discover_markdown_files(files) == rglob(SOLANA_AGAVE, files, MD)

\* ComprehensiveSolanaProcessor.discover_documentation_files
RECURSIVE discover_documentation_files(_, _)
discover_documentation_files(files, exts) ==
    IF exts = <<>> THEN <<>>
    ELSE rglob(SOLANA_AGAVE_FULL, files, Head(exts))
            \o discover_documentation_files(files, Tail(exts))

\* What open(file_path).read() gives in the repository `files`.
RawOf(files, repo_path, file_path) ==
    LET n == CHOOSE n \in DOMAIN files : files[n].path = RelativeTo(file_path, repo_path)
    IN  files[n].raw

\* Path(file_path).suffix[1:].lower(): the text after the last "."
Suffix(file_path) ==
    LET dot == CHOOSE k \in DOMAIN file_path :
                    file_path[k] = "." /\ \A m \in (k + 1)..Len(file_path) : file_path[m] # "."
    IN  lower(SubSeq(file_path, dot + 1, Len(file_path)))

PDF == <<"p", "d", "f">>

\* SolanaDocProcessor.process_markdown_file, given what reading the file gives.
process_markdown_file(file_path, raw) ==
    LET relative_path == RelativeTo(file_path, SOLANA_AGAVE)
    IN  IF raw = <<>> THEN None
        ELSE
            LET title == <<"title", relative_path, raw[1]>>
            IN  <<[url |-> file_path, title |-> title, method |-> <<>>,
                   path |-> relative_path,
                   content |-> Text(<<title, relative_path>>, raw[1]),
                   metadata |-> [source |-> <<"markdown">>, title |-> title, method |-> <<>>,
                                 path |-> relative_path, extracted_at |-> clock]]>>

\* A plausible slip: the blank check is applied to every file type, and a
\* PDF, which has no text, is dropped.
process_documentation_file_TextOnly(file_path, raw) ==
    LET relative_path  == RelativeTo(file_path, SOLANA_AGAVE_FULL)
        file_extension == Suffix(file_path)
    IN  IF raw = <<>> THEN None
        ELSE
            LET title == <<"title", relative_path, raw[1]>>
            IN  <<[url |-> file_path, title |-> title, method |-> <<>>,
                   path |-> relative_path,
                   content |-> Text(<<title, relative_path>>, raw[1]),
                   metadata |-> [source |-> file_extension, title |-> title, method |-> <<>>,
                                 path |-> relative_path, extracted_at |-> clock]]>>

\* ComprehensiveSolanaProcessor.process_documentation_file: a PDF is not read
\* as text and always gives a document, whose content is a description.
process_documentation_file(file_path, raw) ==
    LET relative_path  == RelativeTo(file_path, SOLANA_AGAVE_FULL)
        file_extension == Suffix(file_path)
    IN  IF file_extension # PDF /\ raw = <<>> THEN None
        ELSE
            LET rev   == IF file_extension = PDF THEN 1 ELSE raw[1]
                title == <<"title", relative_path, rev>>
            IN  <<[url |-> file_path, title |-> title, method |-> <<>>,
                   path |-> relative_path,
                   content |-> Text(<<title, relative_path>>, rev),
                   metadata |-> [source |-> file_extension, title |-> title, method |-> <<>>,
                                 path |-> relative_path, extracted_at |-> clock]]>>

\* doc_path = doc.relative_path
SolanaDocPath(doc) == doc.path

\* The row store_documents writes for a document: token_count is
\* len(doc.content) // 4.
SolanaRow(doc, embedding, now) ==
    DocumentRow("solana", "Solana Agave", SolanaDocPath(doc), doc.content,
                doc.metadata, embedding, doc.content.chars \div 4, now)

DiscoverAll(files) == discover_documentation_files(files, supported_extensions)

\* Each script's processor: its repo_path, its discovery, its file processing.
RepoPath(s) == IF s = "ingest_solana" THEN SOLANA_AGAVE ELSE SOLANA_AGAVE_FULL
Discover(s, files) ==
    IF s = "ingest_solana" THEN discover_markdown_files(files) ELSE DiscoverAll(files)
Process(s, file_path, raw) ==
    IF s = "ingest_solana"
    THEN process_markdown_file(file_path, raw)
    ELSE process_documentation_file(file_path, raw)

\* main() up to process_all_files' loop: the environment, then
\* `if not Path(repo).exists(): sys.exit(1)`, then the discovery.
SolanaLaunch(s) ==
    \/ \E repo \in RepoSnapshots :
            Launch(s, IF Discover(s, repo.files) = <<>> THEN "exited" ELSE "process", 0,
                   Discover(s, repo.files), repo)
    \/ Launch(s, "exited", 1, <<>>, NoRepository)

\* A plausible slip: main() does not look at the list the loop produced and
\* goes on to the embedding and store steps with no document.
ProcessNextWithoutCheck(s) ==
    /\ script = s
    /\ pc = "process"
    /\ i < Len(to_extract)
    /\ \E readable \in BOOLEAN :
        LET file_path == to_extract[i + 1]
            doc == IF readable
                   THEN Process(s, file_path, RawOf(world.files, RepoPath(s), file_path))
                   ELSE None
            got == endpoints \o doc
        IN  /\ endpoints' = got
            /\ events' = Append(events, Event("read", file_path,
                                               IF readable THEN Len(doc) ELSE -1))
            /\ IF i + 1 < Len(to_extract)
               THEN /\ i' = i + 1
                    /\ UNCHANGED <<pc, exit_status, conn>>
               ELSE /\ i' = 0
                    /\ pc' = (IF got = <<>> THEN "connect" ELSE "embed")
                    /\ UNCHANGED <<exit_status, conn>>
    /\ UNCHANGED <<dbVars, clock, script, envVars, valVars, world, to_extract, embeddings>>

\* One iteration of process_all_files' `for i, file_path in enumerate(files)`:
\* the file is read (an error while reading is caught and gives None), and
\* after the last one main() returns if there is no document.
ProcessNext(s) ==
    /\ script = s
    /\ pc = "process"
    /\ i < Len(to_extract)
    /\ \E readable \in BOOLEAN :
        LET file_path == to_extract[i + 1]
            doc == IF readable
                   THEN Process(s, file_path, RawOf(world.files, RepoPath(s), file_path))
                   ELSE None
            got == endpoints \o doc
        IN  /\ endpoints' = got
            /\ events' = Append(events, Event("read", file_path,
                                               IF readable THEN Len(doc) ELSE -1))
            /\ IF i + 1 < Len(to_extract)
               THEN /\ i' = i + 1
                    /\ UNCHANGED <<pc, exit_status, conn>>
               ELSE /\ i' = 0
                    /\ IF got = <<>>
                       THEN Exit(0)
                       ELSE pc' = "embed" /\ UNCHANGED <<exit_status, conn>>
    /\ UNCHANGED <<dbVars, clock, script, envVars, valVars, world, to_extract, embeddings>>

\* ingest_solana.main, lines 294-319, and discover_markdown_files
SolanaStart == SolanaLaunch("ingest_solana")

\* SolanaDocProcessor.process_all_files and main, lines 322-326
SolanaProcess == ProcessNext("ingest_solana")

\* ingest_solana.main, lines 330-336
SolanaEmbed == GenerateEmbeddings("ingest_solana", FALSE)

\* ingest_solana store_documents: asyncpg.connect and register_vector
SolanaConnect == Connect("ingest_solana", "store")

\* ingest_solana store_documents, one iteration of the loop over zip(documents,
\* embeddings); after the last one the connection is closed and main() returns.
SolanaStore ==
    /\ script = "ingest_solana"
    /\ pc = "store"
    /\ StoreNext("ingest_solana", SolanaRow(endpoints[i + 1], embeddings[i + 1], clock), Exit(0))
    /\ UNCHANGED <<document_sources, clock, script, envVars, valVars, world, to_extract, endpoints,
                   embeddings>>

\* ingest_solana_comprehensive.main, lines 402-428, and discover_documentation_files
ComprehensiveStart == SolanaLaunch("ingest_solana_comprehensive")

\* ComprehensiveSolanaProcessor.process_all_files and main, lines 430-435
ComprehensiveProcess == ProcessNext("ingest_solana_comprehensive")

\* ingest_solana_comprehensive.main, lines 439-445
ComprehensiveEmbed == GenerateEmbeddings("ingest_solana_comprehensive", FALSE)

\* ingest_solana_comprehensive store_documents: asyncpg.connect and register_vector
ComprehensiveConnect == Connect("ingest_solana_comprehensive", "store")

\* ingest_solana_comprehensive store_documents, one iteration of the loop.
ComprehensiveStore ==
    /\ script = "ingest_solana_comprehensive"
    /\ pc = "store"
    /\ StoreNext("ingest_solana_comprehensive",
                 SolanaRow(endpoints[i + 1], embeddings[i + 1], clock), Exit(0))
    /\ UNCHANGED <<document_sources, clock, script, envVars, valVars, world, to_extract, endpoints,
                   embeddings>>

----------------------------------------------------------------------------
(* validate_migration.py *)

\* SELECT doc_type, source_name, doc_path, COUNT(*) FROM documents
\* GROUP BY doc_type, source_name, doc_path HAVING COUNT(*) > 1
Duplicates(table) ==
    {k \in {Key(table[n]) : n \in DOMAIN table} :
        Cardinality({n \in DOMAIN table : Key(table[n]) = k}) > 1}

\* Rows of a documents table as the migration from rust_docs_vectors left
\* them: doc_type 'rust', with or without an embedding.
RustRow(crate, doc_path, embedded) ==
    LET title   == <<"title", doc_path, 1>>
        content == Text(<<title, doc_path>>, 1)
    IN  DocumentRow("rust", crate, doc_path, content,
                    [source |-> <<"migration">>, title |-> title, method |-> <<>>,
                     path |-> doc_path, extracted_at |-> 0],
                    IF embedded THEN Embedding(Truncate(content)) ELSE NULL,
                    content.chars \div 4, 0)

\* The docs database that connect_to_database(database="docs") reaches
\* during one run of the validation: whether it can be reached, whether
\* information_schema lists columns of a documents table, whether doc_type
\* is an enum type (or a VARCHAR with a CHECK), whether the vector search
\* statement and the document_sources statement can be executed, and the
\* rows of documents.  The table is the one the ingestion scripts have
\* written, or a migrated one; a migrated table need not have the unique
\* index, and the validation is written to look for duplicates.
Database(reachable, columns, enum, vector, sources, table) ==
    [reachable |-> reachable, columns |-> columns, enum |-> enum,
     vector |-> vector, sources |-> sources, table |-> table]

DocsSnapshots(table) ==
    LET tokio_a == RustRow("tokio", <<"tokio", "/", "index">>, TRUE)
        tokio_b == RustRow("tokio", <<"tokio", "/", "task">>, TRUE)
        serde   == RustRow("serde", <<"serde", "/", "index">>, FALSE)
    IN  {Database(FALSE, FALSE, FALSE, FALSE, FALSE, <<>>),
         Database(TRUE, FALSE, FALSE, FALSE, FALSE, <<>>),
         Database(TRUE, TRUE, TRUE, TRUE, TRUE, table),
         Database(TRUE, TRUE, FALSE, TRUE, TRUE, <<tokio_a, tokio_b>>),
         Database(TRUE, TRUE, TRUE, FALSE, FALSE, <<tokio_a, serde>>),
         Database(TRUE, TRUE, TRUE, TRUE, TRUE, <<tokio_a, tokio_a>>),
         Database(TRUE, TRUE, TRUE, TRUE, TRUE, <<serde>>)}

\* cursor.execute(...) of the statement `name`: n is 1 when it returned and
\* 0 when it raised.
Statement(name, ok) == Event("execute", name, IF ok THEN 1 ELSE 0)

\* A cursor.execute(...) the function is to make: whether the database can
\* execute the statement, and whether a raise is caught by a try block of
\* its own (steps 2, 7 and 8) or leaves the function's outer try block.
Query(name, ok, caught) == [name |-> name, ok |-> ok, caught |-> caught]

\* The statements are executed in turn on one connection.
\* psycopg2.connect(...) leaves autocommit off and the code never calls
\* rollback(): once a statement has raised, the connection's transaction is
\* aborted and the server refuses every later statement on it.  A raise
\* that is not caught ends the sequence.
RECURSIVE ExecuteAll(_, _)
ExecuteAll(statements, aborted) ==
    IF statements = <<>> THEN <<>>
    ELSE
        LET ok == Head(statements).ok /\ ~aborted
        IN  <<Statement(Head(statements).name, ok)>> \o
                (IF ok \/ Head(statements).caught
                 THEN ExecuteAll(Tail(statements), aborted \/ ~ok)
                 ELSE <<>>)

\* validate_new_database(), given the database it reaches: the calls it
\* makes, the duplicate groups its fifth step fetched, and what it returns.
validate_new_database(db) ==
    LET opened == Event("connect", "docs", IF db.reachable THEN 1 ELSE 0)
        closed == Event("close", "docs", 1)
        total_docs      == Len(db.table)
        embedding_count == Cardinality({n \in DOMAIN db.table :
                                            db.table[n].embedding # NULL})
        statements ==
            \* 1. schema structure
            <<Query("columns", TRUE, FALSE),
            \* 2. documentation types, with the fallback of the except branch
              Query("doc_type enum", db.enum, TRUE)>> \o
            (IF db.enum THEN <<>> ELSE <<Query("check constraints", TRUE, FALSE)>>) \o
            \* 3. to 6.
            <<Query("documents by type", TRUE, FALSE),
              Query("documents with embeddings", TRUE, FALSE),
              Query("embedding dimensions", TRUE, FALSE),
              Query("duplicates", TRUE, FALSE),
              Query("samples", TRUE, FALSE)>> \o
            \* 7. vector search, in its own try, only when embedding_count > 0
            (IF embedding_count > 0
             THEN <<Query("vector search", db.vector, TRUE)>> ELSE <<>>) \o
            \* 8. document sources, in its own try
            <<Query("document_sources", db.sources, TRUE)>>
        executed == ExecuteAll(statements, FALSE)
        raised   == \E k \in DOMAIN executed :
                        executed[k].n = 0 /\ ~statements[k].caught
    IN  IF ~db.reachable
        THEN [calls |-> <<opened>>, duplicates |-> {}, result |-> FALSE]
        ELSE IF ~db.columns
        THEN [calls |-> <<opened, Statement("columns", TRUE)>>, duplicates |-> {},
              result |-> FALSE]
        ELSE IF raised
        THEN [calls |-> <<opened>> \o executed \o <<closed>>, duplicates |-> {},
              result |-> FALSE]
        ELSE [calls |-> <<opened>> \o executed \o <<closed>>,
              duplicates |-> Duplicates(db.table),
              result |-> total_docs > 0 /\ embedding_count > 0]

\* The operator starts validate_migration.py, which reads no environment.
ValidateStart ==
    /\ pc \in {"idle", "exited"}
    /\ clock < MaxRuns
    /\ clock' = clock + 1
    /\ script' = "validate_migration"
    /\ pc' = "original"
    /\ \E db \in DocsSnapshots(documents) : world' = db
    /\ to_extract' = <<>>
    /\ i' = 0
    /\ endpoints' = <<>>
    /\ embeddings' = <<>>
    /\ conn' = FALSE
    /\ exit_status' = 0
    /\ events' = <<>>
    /\ original_accessible' = FALSE
    /\ new_database_valid' = FALSE
    /\ UNCHANGED <<dbVars, envVars>>

\* test_original_database(): rust_docs_vectors cannot be reached, or a
\* statement raises, or the database is read.
TestOriginalDatabase ==
    /\ script = "validate_migration"
    /\ pc = "original"
    /\ \E outcome \in {"unreachable", "error", "accessible"} :
        /\ original_accessible' = (outcome = "accessible")
        /\ events' = events \o
                <<Event("connect", "rust_docs_vectors",
                        IF outcome = "unreachable" THEN 0 ELSE 1)>> \o
                (IF outcome = "unreachable" THEN <<>>
                 ELSE <<Statement("tables", outcome = "accessible"),
                        Event("close", "rust_docs_vectors", 1)>>)
    /\ pc' = "new"
    /\ UNCHANGED <<dbVars, clock, script, envVars, new_database_valid, world, to_extract, i,
                   endpoints, embeddings, conn, exit_status>>

\* main: new_database_valid = validate_new_database()
ValidateNewDatabase ==
    /\ script = "validate_migration"
    /\ pc = "new"
    /\ new_database_valid' = validate_new_database(world).result
    /\ events' = events \o validate_new_database(world).calls
    /\ pc' = "result"
    /\ UNCHANGED <<dbVars, clock, script, envVars, original_accessible, world, to_extract, i,
                   endpoints, embeddings, conn, exit_status>>

\* A plausible slip: the validation passes only when both databases did.
ValidateExitBoth ==
    /\ script = "validate_migration"
    /\ pc = "result"
    /\ Exit(IF original_accessible /\ new_database_valid THEN 0 ELSE 1)
    /\ UNCHANGED <<dbVars, clock, script, envVars, valVars, world, to_extract, i, endpoints,
                   embeddings, events>>

\* main returns new_database_valid; sys.exit(0 if success else 1)
ValidateExit ==
    /\ script = "validate_migration"
    /\ pc = "result"
    /\ Exit(IF new_database_valid THEN 0 ELSE 1)
    /\ UNCHANGED <<dbVars, clock, script, envVars, valVars, world, to_extract, i, endpoints,
                   embeddings, events>>

Next ==
    \/ BirdeyeStart
    \/ BirdeyeExtract
    \/ BirdeyeEmbed
    \/ BirdeyeConnect
    \/ BirdeyeEnsureSource
    \/ BirdeyeStoreDocument
    \/ BirdeyeUpdateStats
    \/ StatementFails
    \/ SimpleStart
    \/ SimpleDownload
    \/ SimpleEmbed
    \/ SimpleConnect
    \/ SimpleStore
    \/ Close
    \/ SolanaStart
    \/ SolanaProcess
    \/ SolanaEmbed
    \/ SolanaConnect
    \/ SolanaStore
    \/ ComprehensiveStart
    \/ ComprehensiveProcess
    \/ ComprehensiveEmbed
    \/ ComprehensiveConnect
    \/ ComprehensiveStore
    \/ ValidateStart
    \/ TestOriginalDatabase
    \/ ValidateNewDatabase
    \/ ValidateExit

Spec == Init /\ [][Next]_vars

\* A step of the script that is running: every external call it waits for
\* returns or raises, and main() goes on.
Step ==
    \/ BirdeyeExtract
    \/ BirdeyeEmbed
    \/ BirdeyeConnect
    \/ BirdeyeEnsureSource
    \/ BirdeyeStoreDocument
    \/ BirdeyeUpdateStats
    \/ StatementFails
    \/ SimpleDownload
    \/ SimpleEmbed
    \/ SimpleConnect
    \/ SimpleStore
    \/ Close
    \/ SolanaProcess
    \/ SolanaEmbed
    \/ SolanaConnect
    \/ SolanaStore
    \/ ComprehensiveProcess
    \/ ComprehensiveEmbed
    \/ ComprehensiveConnect
    \/ ComprehensiveStore
    \/ TestOriginalDatabase
    \/ ValidateNewDatabase
    \/ ValidateExit

\* The runs in a world where no call hangs; when and whether the operator
\* starts a script is left open.
\* (Every step of a run changes its place, its loop counter or its log.)
progress == <<pc, i, events>>
LiveSpec == Init /\ [][Next]_vars /\ WF_progress(Step)

----------------------------------------------------------------------------
(* The store step as a whole: the loop over zip(documents, embeddings) of  *)
(* store_endpoints / store_documents, run at time `now` on `table`.        *)

RowOf(s, doc, embedding, now) ==
    CASE s = "ingest_birdeye" -> BirdeyeRow(doc, embedding, now)
      [] s = "ingest_birdeye_simple" -> SimpleRow(doc, embedding, now)
      [] OTHER -> SolanaRow(doc, embedding, now)

RECURSIVE StoreAll(_, _, _, _, _)
StoreAll(s, table, docs, embs, now) ==
    IF docs = <<>> \/ embs = <<>> THEN table
    ELSE StoreAll(s, Upsert(table, RowOf(s, Head(docs), Head(embs), now)),
                  Tail(docs), Tail(embs), now)

----------------------------------------------------------------------------
(* Properties. *)

Completed == pc = "exited" /\ exit_status = 0
Stored(n) == \E e \in DOMAIN events : events[e].op = "store" /\ events[e].n = n

\* C1: whatever scripts have run, in whatever order and how often, the
\* documents table holds at most one row per (doc_type, source_name,
\* doc_path): the duplicate check of validate_new_database finds no group.
C1_NoDuplicateKeys == Duplicates(documents) = {}

\* A second invocation has completed and has rewritten a row that an earlier
\* invocation inserted, in a table of several rows.
C1_Witness ==
    /\ Completed
    /\ Len(documents) > 1
    /\ \E m \in DOMAIN documents : documents[m].created_at < documents[m].updated_at

\* The table with updated_at blanked.
WithoutUpdatedAt(table) == [n \in DOMAIN table |-> [table[n] EXCEPT !.updated_at = 0]]

\* C2: when a store step has completed, executing it again, later, with the
\* same documents and the same embeddings leaves the documents table with
\* the same rows, equal in every column but updated_at.
C2_StoreIdempotent ==
    (Completed /\ Stored(1))
        => WithoutUpdatedAt(StoreAll(script, documents, endpoints, embeddings, clock + 1))
                = WithoutUpdatedAt(documents)

\* A store step of two documents has completed, and executing it again
\* would rewrite rows (their updated_at changes).
C2_Witness ==
    /\ Completed
    /\ Stored(2)
    /\ StoreAll(script, documents, endpoints, embeddings, clock + 1) # documents

----------------------------------------------------------------------------
(* The calls of the current run, read off its log. *)

Calls(ops) == SelectSeq(events, LAMBDA e : e.op \in ops)
Before(n, ops) == Cardinality({m \in 1..(n - 1) : events[m].op \in ops})

\* C3 (as stated): no embedding request of any script carries more than
\* MAX_CHARS characters.
C3_WithinBudget ==
    \A e \in DOMAIN events : events[e].op = "embed" => events[e].n <= MAX_CHARS

\* C4 (as stated): the run goes document by document, so that a document is
\* stored before the next one is embedded, and before the next one is
\* fetched or read.
C4_OneDocumentAtATime ==
    \A n \in DOMAIN events :
        /\ events[n].op = "embed" => Before(n, {"store"}) = Before(n, {"embed"})
        /\ events[n].op \in {"fetch", "read"} =>
                Before(n, {"store"}) =
                    Cardinality({m \in 1..(n - 1) :
                        events[m].op \in {"fetch", "read"} /\ events[m].n = 1})

\* The phase a call belongs to: extraction, embedding, storing.
Phase(e) ==
    CASE e.op \in {"fetch", "read", "sleep"} -> 1
      [] e.op \in {"embed", "asyncio.sleep"} -> 2
      [] OTHER -> 3

\* C4 (amended): a run is three passes over the whole batch. Every fetch or
\* file read comes before the first embedding request, and every embedding
\* request before the first database statement; extraction is over, for
\* every URL or file of the run, when the first embedding is requested;
\* every extracted document has its embedding when the first row is
\* written; and the embedding requests and the upserts each go through the
\* extracted documents in list order.
C4_ThreePhases ==
    /\ \A m, n \in DOMAIN events : m < n => Phase(events[m]) <= Phase(events[n])
    /\ Calls({"embed"}) # <<>> =>
            Len(Calls({"fetch", "read"})) =
                IF script = "ingest_birdeye_simple" THEN 1 ELSE Len(to_extract)
    /\ Calls({"store"}) # <<>> => Len(Calls({"embed"})) = Len(endpoints)
    /\ \A k \in DOMAIN Calls({"embed"}) : Calls({"embed"})[k].arg = k
    /\ \A k \in DOMAIN Calls({"store"}) : Calls({"store"})[k].arg = k

\* A run has completed that extracted two documents, requested both
\* embeddings and then stored both.
C4_Witness ==
    /\ Completed
    /\ Len(Calls({"fetch", "read"})) >= 2
    /\ Len(Calls({"embed"})) = 2
    /\ Stored(2)

\* C5: within one run no URL is requested twice, also after a failure, and
\* no document's embedding is requested twice.
C5_NoRetry ==
    \A m, n \in DOMAIN events :
        m # n =>
            /\ (events[m].op = "fetch" /\ events[n].op = "fetch")
                    => events[m].arg # events[n].arg
            /\ (events[m].op = "embed" /\ events[n].op = "embed")
                    => events[m].arg # events[n].arg

\* A run has ended after a fetch that failed, further fetches, and an
\* embedding request that failed.
C5_Witness ==
    /\ pc = "exited"
    /\ exit_status = 1
    /\ \E m, n \in DOMAIN events :
        /\ m < n
        /\ events[m].op = "fetch" /\ events[m].n = 0
        /\ events[n].op = "fetch"
    /\ Calls({"embed"}) # <<>>
    /\ Len(embeddings) < Len(Calls({"embed"}))

\* C6: in ingest_birdeye the fetches and the sleeps alternate, starting and
\* ending with a fetch: a sleep follows every fetch but the last, whether
\* or not the fetch gave an endpoint, and its length is 10 seconds when the
\* run has at most 20 URLs and 15 seconds when it has more.
C6_FixedDelay ==
    script = "ingest_birdeye" =>
        LET calls == Calls({"fetch", "sleep"})
        IN  /\ \A k \in DOMAIN calls :
                    calls[k].op = IF k % 2 = 1 THEN "fetch" ELSE "sleep"
            /\ \A k \in DOMAIN calls :
                    calls[k].op = "sleep" =>
                        calls[k].n = IF Len(to_extract) <= 20 THEN 10 ELSE 15
            /\ (pc # "extract" /\ calls # <<>>) =>
                    Len(calls) = 2 * Len(to_extract) - 1

\* An ingest_birdeye run is past its extraction loop, in which a fetch that
\* gave no endpoint was followed by a sleep and a further fetch.
C6_Witness ==
    /\ script = "ingest_birdeye"
    /\ pc # "extract"
    /\ \E k \in DOMAIN events :
        /\ events[k].op = "fetch" /\ events[k].n = 0
        /\ k + 2 \in DOMAIN events
        /\ events[k + 1].op = "sleep"
        /\ events[k + 2].op = "fetch"

\* C7: a source never holds two rows for the same endpoint (method and
\* path) or the same file (relative path): doc_path depends on nothing
\* else, so a later run rewrites the row of an earlier one.
C7_StableDocPath ==
    \A m, n \in DOMAIN documents :
        ( /\ documents[m].doc_type = documents[n].doc_type
          /\ documents[m].source_name = documents[n].source_name
          /\ documents[m].metadata.method = documents[n].metadata.method
          /\ documents[m].metadata.path = documents[n].metadata.path )
            => /\ m = n
               /\ documents[m].doc_path = documents[n].doc_path

\* A run has completed that found changed content under a method and path
\* (or a relative path) stored by an earlier run, and rewrote that row.
C7_Witness ==
    /\ Completed
    /\ \E m \in DOMAIN documents :
        /\ documents[m].created_at < documents[m].updated_at
        /\ documents[m].metadata.extracted_at = documents[m].updated_at
        /\ documents[m].content.rev = 2

\* C8 (as stated): when a run of any of the four scripts has completed,
\* every (doc_type, source_name) it wrote documents under has a row in
\* document_sources.
C8_SourceRegistered ==
    Completed =>
        \A n \in DOMAIN documents :
            documents[n].updated_at = clock =>
                \E s \in DOMAIN document_sources :
                    SourceKey(document_sources[s]) = SourceKey(documents[n])

\* C9: every row of documents carries an embedding, and it is the vector
\* the embedding API returned for the row's (truncated) content.
C9_EmbeddingPresent ==
    \A n \in DOMAIN documents :
        /\ documents[n].embedding # NULL
        /\ documents[n].embedding = Embedding(Truncate(documents[n].content))

\* Rows written by two runs, one of them holding content over the budget.
C9_Witness ==
    /\ Completed
    /\ \E m, n \in DOMAIN documents :
        /\ documents[m].updated_at < documents[n].updated_at
        /\ documents[n].content.chars > MAX_CHARS

\* C10 (as stated): a run of ingest_birdeye that gets past its extraction
\* loop has requested every URL discover_all_endpoints returns.
C10_AllEndpointsProcessed ==
    (script = "ingest_birdeye" /\ pc \notin {"idle", "extract"} /\ events # <<>>) =>
        \A k \in DOMAIN discover_all_endpoints :
            \E e \in DOMAIN events :
                /\ events[e].op = "fetch"
                /\ events[e].arg = discover_all_endpoints[k]

----------------------------------------------------------------------------
(* validate_migration.py *)

Validated == script = "validate_migration" /\ pc \in {"result", "exited"}
Executed(name) ==
    \E e \in DOMAIN events :
        events[e].op = "execute" /\ events[e].arg = name /\ events[e].n = 1
RaisedOn(name) ==
    \E e \in DOMAIN events :
        events[e].op = "execute" /\ events[e].arg = name /\ events[e].n = 0

\* C11 (as stated): when validate_new_database has returned True (MIGRATION
\* SUCCESSFUL, "Data integrity maintained"), the duplicate query of its
\* fifth step returned no (doc_type, source_name, doc_path) group.
C11_SuccessMeansNoDuplicates ==
    (Validated /\ new_database_valid) =>
        validate_new_database(world).duplicates = {}

\* C16: validate_migration exits with status 0 exactly when
\* validate_new_database returned True, whatever test_original_database
\* returned and whether or not rust_docs_vectors could be reached.
C16_ExitStatus ==
    (script = "validate_migration" /\ pc = "exited") =>
        /\ exit_status = 0 <=> new_database_valid
        /\ exit_status = IF validate_new_database(world).result THEN 0 ELSE 1

\* The validation has passed although the original database could not be
\* reached.
C16_Witness ==
    /\ script = "validate_migration"
    /\ pc = "exited"
    /\ exit_status = 0
    /\ ~original_accessible
    /\ \E e \in DOMAIN events :
        /\ events[e].op = "connect"
        /\ events[e].arg = "rust_docs_vectors"
        /\ events[e].n = 0

\* C20 (as stated): when the doc_type enum query raises, the check-constraint
\* query and the statements of steps 3 to 8 are still executed on the same
\* connection, and the function returns True when the table holds documents
\* and embeddings.
C20_EnumFailureTolerated ==
    (Validated /\ RaisedOn("doc_type enum")) =>
        /\ Executed("check constraints")
        /\ Executed("documents by type")
        /\ Executed("documents with embeddings")
        /\ Executed("duplicates")
        /\ Executed("samples")
        /\ (\E n \in DOMAIN world.table : world.table[n].embedding # NULL)
                => new_database_valid

----------------------------------------------------------------------------
(* Discovery and processing of repository files. *)

EnvironmentSet == database_url /\ openai_api_key

\* The files of a repository that ingest_solana_comprehensive is to take:
\* a supported extension, and no skip pattern in the relative path.
Eligible(files) ==
    {n \in DOMAIN files :
        /\ \E e \in DOMAIN supported_extensions :
                EndsWith(files[n].path, supported_extensions[e])
        /\ \A pattern \in skip_patterns : ~Contains(files[n].path, pattern)}

ReadFailed(file_path) ==
    \E e \in DOMAIN events :
        events[e].op = "read" /\ events[e].arg = file_path /\ events[e].n = -1

BlankText(file_path) ==
    /\ ~EndsWith(file_path, <<".", "p", "d", "f">>)
    /\ RawOf(world.files, SOLANA_AGAVE_FULL, file_path) = <<>>

\* C12: in ingest_solana_comprehensive the discovered list holds every
\* eligible file of the repository exactly once and nothing else; when the
\* processing loop is over each discovered file has given exactly one
\* document, except a blank text file and a file that could not be read,
\* which give none; and a completed run has written one row per document,
\* keyed by its relative path.
C12_DiscoveryComplete ==
    (script = "ingest_solana_comprehensive" /\ EnvironmentSet) =>
        /\ \A n \in Eligible(world.files) :
                Cardinality({k \in DOMAIN to_extract :
                    to_extract[k] = Join(SOLANA_AGAVE_FULL, world.files[n].path)}) = 1
        /\ \A k \in DOMAIN to_extract :
                \E n \in Eligible(world.files) :
                    to_extract[k] = Join(SOLANA_AGAVE_FULL, world.files[n].path)
        /\ pc # "process" =>
                \A k \in DOMAIN to_extract :
                    Cardinality({d \in DOMAIN endpoints :
                                    endpoints[d].url = to_extract[k]}) =
                        IF ReadFailed(to_extract[k]) \/ BlankText(to_extract[k])
                        THEN 0 ELSE 1
        /\ Completed =>
                /\ Len(Calls({"store"})) = Len(endpoints)
                /\ \A d \in DOMAIN endpoints :
                        \E m \in DOMAIN documents :
                            /\ documents[m].doc_type = "solana"
                            /\ documents[m].doc_path =
                                    RelativeTo(endpoints[d].url, SOLANA_AGAVE_FULL)
                            /\ documents[m].updated_at = clock

\* A completed run over a repository with a diagram, a PDF and a source
\* file has stored the diagram and the PDF.
C12_Witness ==
    /\ script = "ingest_solana_comprehensive"
    /\ Completed
    /\ Len(world.files) > Cardinality(Eligible(world.files))
    /\ \E d \in DOMAIN endpoints : EndsWith(endpoints[d].url, <<".", "p", "d", "f">>)
    /\ Stored(2)

----------------------------------------------------------------------------
(* Source statistics of ingest_birdeye. *)

BirdeyeApiRows ==
    {n \in DOMAIN documents :
        documents[n].doc_type = "birdeye" /\ documents[n].source_name = "birdeye-api"}

RECURSIVE TokenTotal(_)
TokenTotal(rows) ==
    IF rows = {} THEN 0
    ELSE LET n == CHOOSE n \in rows : TRUE
         IN  documents[n].token_count + TokenTotal(rows \ {n})

\* C13: when a run of ingest_birdeye has completed its store step, there is
\* one document_sources row for ('birdeye', 'birdeye-api'), its total_docs
\* is the number of documents rows of that source and its total_tokens is
\* the sum of their token_count.
C13_SourceStats ==
    (script = "ingest_birdeye" /\ Completed) =>
        /\ Cardinality({s \in DOMAIN document_sources :
                SourceKey(document_sources[s]) = <<"birdeye", "birdeye-api">>}) = 1
        /\ \A s \in DOMAIN document_sources :
                SourceKey(document_sources[s]) = <<"birdeye", "birdeye-api">> =>
                    /\ document_sources[s].total_docs = <<Cardinality(BirdeyeApiRows)>>
                    /\ document_sources[s].total_tokens = <<TokenTotal(BirdeyeApiRows)>>

\* A run of ingest_birdeye has completed on a table that also holds rows of
\* ingest_birdeye_simple, which have the same doc_type, and has counted
\* several rows of its own.
C13_Witness ==
    /\ script = "ingest_birdeye"
    /\ Completed
    /\ Cardinality(BirdeyeApiRows) > 1
    /\ \E n \in DOMAIN documents :
        documents[n].doc_type = "birdeye" /\ documents[n].source_name # "birdeye-api"

----------------------------------------------------------------------------
(* ingest_birdeye_simple: the download and the extraction. *)

MethodKeys ==
    {<<"g", "e", "t">>, <<"p", "o", "s", "t">>, <<"p", "u", "t">>,
     <<"d", "e", "l", "e", "t", "e">>, <<"p", "a", "t", "c", "h">>}

Downloaded ==
    \E e \in DOMAIN events : events[e].op = "fetch" /\ events[e].n = 1

\* C14: a run of ingest_birdeye_simple that gets to its download makes
\* exactly one request to the documentation site, however many endpoints
\* the schema holds; and when the download succeeded there is exactly one
\* endpoint for each (path, key) of the schema whose key is get, post, put,
\* delete or patch in any letter case, and none for any other key.
C14_OneRequest ==
    (script = "ingest_birdeye_simple" /\ EnvironmentSet) =>
        /\ Len(Calls({"fetch"})) = IF pc = "download" THEN 0 ELSE 1
        /\ Downloaded =>
            /\ \A k \in DOMAIN world.paths :
                    Cardinality({d \in DOMAIN endpoints :
                        /\ endpoints[d].path = world.paths[k].path
                        /\ lower(endpoints[d].method) = lower(world.paths[k].key)}) =
                            IF lower(world.paths[k].key) \in MethodKeys THEN 1 ELSE 0
            /\ Len(endpoints) =
                    Cardinality({k \in DOMAIN world.paths :
                                    lower(world.paths[k].key) \in MethodKeys})
            /\ \A d \in DOMAIN endpoints : endpoints[d].method = upper(endpoints[d].method)

\* A run has completed on a schema of two endpoints, one of them spelled
\* "Post", after one request.
C14_Witness ==
    /\ script = "ingest_birdeye_simple"
    /\ Completed
    /\ Len(Calls({"fetch"})) = 1
    /\ Len(endpoints) = 2
    /\ \E k \in DOMAIN world.paths : world.paths[k].key # lower(world.paths[k].key)
    /\ Stored(2)

----------------------------------------------------------------------------
(* Abnormal ends of the ingestion runs. *)

\* C15: a run of an ingestion script that finds DATABASE_URL or
\* OPENAI_API_KEY unset or empty has exited with status 1, and has made no
\* HTTP request, read no file, listed no repository file, requested no
\* embedding and opened no database connection; the tables are as they were.
C15_EnvironmentChecked ==
    (script \in Scripts /\ ~EnvironmentSet) =>
        /\ pc = "exited"
        /\ exit_status = 1
        /\ events = <<>>
        /\ to_extract = <<>>
        /\ endpoints = <<>>
        /\ embeddings = <<>>
        /\ ~conn
        /\ \A n \in DOMAIN documents : documents[n].updated_at < clock

\* The second run found the API key missing, on a database that the first
\* run had filled, in a checkout with documentation files.
C15_Witness ==
    /\ script \in {"ingest_solana", "ingest_solana_comprehensive"}
    /\ database_url
    /\ ~openai_api_key
    /\ pc = "exited"
    /\ exit_status = 1
    /\ documents # <<>>
    /\ Len(world.files) > 1

----------------------------------------------------------------------------
(* Failures while extracting. *)

\* C18: in ingest_birdeye a URL whose extraction fails (HTTP error, body
\* that is not JSON, response without a 'data' section) gives no endpoint,
\* no embedding request and no row, and does not end the loop: the URLs
\* are requested in list order, each one whatever became of the ones before
\* it, and when the loop is over every URL of the list has been requested.
C18_FailedUrlSkipped ==
    (script = "ingest_birdeye" /\ EnvironmentSet) =>
        LET fetches == Calls({"fetch"})
        IN  /\ Len(fetches) <= Len(to_extract)
            /\ \A k \in DOMAIN fetches : fetches[k].arg = to_extract[k]
            /\ pc # "extract" => Len(fetches) = Len(to_extract)
            /\ Len(endpoints) = Cardinality({k \in DOMAIN fetches : fetches[k].n = 1})
            /\ Len(Calls({"embed"})) <= Len(endpoints)
            /\ \A k \in DOMAIN fetches :
                    fetches[k].n = 0 =>
                        /\ \A d \in DOMAIN endpoints : endpoints[d].url # fetches[k].arg
                        /\ \A m \in DOMAIN documents :
                                documents[m].updated_at = clock =>
                                    documents[m].metadata.source # fetches[k].arg

\* A run has completed whose first URL failed: the two URLs after it were
\* extracted, embedded and stored.
C18_Witness ==
    /\ script = "ingest_birdeye"
    /\ Completed
    /\ Calls({"fetch"}) # <<>>
    /\ Calls({"fetch"})[1].n = 0
    /\ Len(endpoints) = 2
    /\ Len(Calls({"embed"})) = 2
    /\ Stored(2)

\* C19: when the extraction of ingest_birdeye, ingest_solana or
\* ingest_solana_comprehensive is over and has given no document, the run
\* has ended: it has requested no embedding, opened no database connection
\* and written nothing, with status 1 in ingest_birdeye and status 0 (main()
\* returns) in the Solana scripts.
C19_NothingExtracted ==
    ( /\ script \in {"ingest_birdeye", "ingest_solana", "ingest_solana_comprehensive"}
      /\ EnvironmentSet
      /\ script # "ingest_birdeye" => world.exists
      /\ pc \notin {"extract", "process"}
      /\ endpoints = <<>> )
        => /\ pc = "exited"
           /\ exit_status = IF script = "ingest_birdeye" THEN 1 ELSE 0
           /\ Calls({"embed", "connect", "sql", "store", "close"}) = <<>>
           /\ embeddings = <<>>
           /\ ~conn
           /\ \A m \in DOMAIN documents : documents[m].updated_at < clock

\* A run of a Solana script has returned after reading two files, neither
\* of which gave a document.
C19_Witness ==
    /\ script \in {"ingest_solana", "ingest_solana_comprehensive"}
    /\ EnvironmentSet
    /\ pc = "exited"
    /\ exit_status = 0
    /\ endpoints = <<>>
    /\ Len(Calls({"read"})) >= 2

====
